---- MODULE Spec2Model ----
(***************************************************************************)
(* FoamRenderer (native/src/foam_gl_renderer.cpp): an offscreen OpenGL     *)
(* mesh renderer behind a C API.  The model keeps the C++ object's fields, *)
(* the GLFW library state (initialised flag, windows, current context),    *)
(* the GLEW loader state and, per GL context, the objects the renderer     *)
(* creates (programs, vertex arrays, buffers, framebuffer, texture,        *)
(* renderbuffer) with their data stores.                                   *)
(*                                                                         *)
(* Floats are modelled in tenths (0.3f is 3, 500.0f is 5000).              *)
(* A member the constructor never writes holds an indeterminate value,     *)
(* drawn from Indeterminate.  A GL command issued with no usable context   *)
(* and a GLFW call on a dangling window are undefined: the handler either  *)
(* carries on with the command ignored or the process dies (crashed).      *)
(* glGen* returns the smallest unused name of the context.                 *)
(***************************************************************************)
EXTENDS Integers, Sequences, FiniteSets, TLC

\* ------------------------------------------------------------------ bounds
MaxVerts == 1

\* ------------------------------------------------- constants of the program
REPRESENTATION_WIREFRAME == 0
REPRESENTATION_SURFACE == 1
REPRESENTATION_SURFACE_WITH_EDGES == 2
DATA_MODE_CELL == 0
DATA_MODE_POINT == 1

Handles == {1, 2}
\* values an uninitialised member (GLuint or GLFWwindow* ) may hold
Indeterminate == {0, 7}
NameFields ==
  {"surface_shader", "edge_shader", "surface_vao", "surface_vbo", "surface_ebo",
   "surface_color_vbo", "edge_vao", "edge_vbo", "edge_ebo", "fbo", "texture", "rbo"}
\* a null array argument (no array is <<-1>>)
NULL == <<-1>>
Fill(v, n) == [i \in 1..n |-> v]

\* the inputs of the C API calls
Sizes == {<<1, 2>>, <<2, 1>>}
IndexCounts == {0, 3}
CellArgs == {<<0, NULL>>, <<1, Fill(3, 4)>>}
Modes ==
  {<<REPRESENTATION_WIREFRAME, DATA_MODE_CELL>>,
   <<REPRESENTATION_SURFACE, DATA_MODE_POINT>>,
   <<REPRESENTATION_SURFACE_WITH_EDGES, DATA_MODE_CELL>>}


\* the default vertex color written when colors is null: 0.5, 0.7, 1.0, 1.0
DefaultColor == <<5, 7, 10, 10>>

\* ---------------------------------------------------------------- state
VARIABLES
  rend,      \* handle -> the FoamRenderer object (plus lifecycle bookkeeping)
  glfw,      \* GLFW library: inited, windows, current
  glew,      \* GLEW entry points loaded
  gl,        \* window -> its GL context: objects, tombstones, polygon mode, ...
  audit,     \* leaked objects at context teardown, double releases
  hist,      \* handle -> the texture ids the last two renders and the last
             \* get_texture returned, as far as no resize came after them
  expect,    \* handle -> the mesh a new object holds after the last update_mesh call
  crashed    \* the process died in an undefined call

vars == <<rend, glfw, glew, gl, audit, hist, expect, crashed>>

\* ------------------------------------------------------- GLFW and GL library
NoCtx ==
  [obj |-> <<>>, freed |-> {}, polygonMode |-> "fill", viewport |-> <<0, 0>>,
   backbuffer |-> <<>>]

Usable(s) == s.glew /\ s.glfw.current \in s.glfw.windows
Ctx(s) == s.gl[s.glfw.current]
SetCtx(s, c) == [s EXCEPT !.gl[s.glfw.current] = c]
Undefined(s) == [s EXCEPT !.ub = TRUE]

Allocated(c, kind) == {k[2] : k \in {x \in DOMAIN c.obj : x[1] = kind}}

NewName(S) ==
  CHOOSE n \in 1..(Cardinality(S) + 1) : n \notin S /\ \A m \in 1..(n - 1) : m \in S

InitialValue(kind) ==
  CASE kind = "buf" -> <<>>
    [] kind = "tex" -> [size |-> <<0, 0>>, image |-> <<>>]
    [] kind = "rbo" -> [size |-> <<0, 0>>]
    [] kind = "fbo" -> [color |-> 0, depth |-> 0]
    [] OTHER -> "object"

Restrict(f, D) == [x \in D |-> f[x]]

\* glGen*(1, &field) / glCreateProgram: a fresh name written to the member
glGen(s, kind, field) ==
  IF ~Usable(s) THEN Undefined(s)
  ELSE LET c == Ctx(s)
           n == NewName(Allocated(c, kind))
           k == <<kind, n>>
           c2 == [c EXCEPT !.obj = (k :> InitialValue(kind)) @@ c.obj,
                           !.freed = c.freed \ {k}]
       IN [SetCtx(s, c2) EXCEPT !.r[field] = n]

\* glDelete*(1, &name): silently ignores 0 and names that are no object
glDelete(s, kind, name) ==
  IF ~Usable(s) THEN Undefined(s)
  ELSE LET c == Ctx(s)
           k == <<kind, name>>
       IN IF k \in DOMAIN c.obj
            THEN SetCtx(s, [c EXCEPT !.obj = Restrict(c.obj, DOMAIN c.obj \ {k}),
                                     !.freed = c.freed \cup {k}])
          ELSE IF k \in c.freed
            THEN [s EXCEPT !.audit.doubleRel = TRUE]
          ELSE s

\* bind an object and set its store: glBindBuffer+glBufferData,
\* glBindTexture+glTexImage2D, glBindRenderbuffer+glRenderbufferStorage,
\* glBindFramebuffer+glFramebuffer{Texture2D,Renderbuffer}
glStore(s, kind, name, value) ==
  IF ~Usable(s) THEN Undefined(s)
  ELSE LET c == Ctx(s)
           k == <<kind, name>>
       IN IF k \in DOMAIN c.obj THEN SetCtx(s, [c EXCEPT !.obj[k] = value]) ELSE s

glPolygonMode(s, mode) ==
  IF ~Usable(s) THEN Undefined(s) ELSE SetCtx(s, [Ctx(s) EXCEPT !.polygonMode = mode])

glViewport(s, w, h) ==
  IF ~Usable(s) THEN Undefined(s) ELSE SetCtx(s, [Ctx(s) EXCEPT !.viewport = <<w, h>>])

\* the objects of window w still allocated when its context goes away
Leftover(s, w) == {<<w, k[1], k[2]>> : k \in DOMAIN s.gl[w].obj}

glfwInit(s) == [s EXCEPT !.glfw.inited = TRUE]

glfwTerminate(s) ==
  IF ~s.glfw.inited THEN s
  ELSE [s EXCEPT !.audit.leaked = @ \cup UNION {Leftover(s, w) : w \in s.glfw.windows},
                 !.gl = [w \in DOMAIN s.gl |-> NoCtx],
                 !.glfw = [inited |-> FALSE, windows |-> {}, current |-> 0]]

glfwCreateWindow(s, id, w, h) ==
  [s EXCEPT !.glfw.windows = @ \cup {id}, !.gl[id] = NoCtx, !.r.window = id]

glfwMakeContextCurrent(s, w) ==
  IF ~s.glfw.inited THEN s
  ELSE IF w = 0 \/ w \in s.glfw.windows THEN [s EXCEPT !.glfw.current = w]
  ELSE Undefined(s)

glfwDestroyWindow(s, w) ==
  IF ~s.glfw.inited THEN s
  ELSE IF w \in s.glfw.windows
    THEN [s EXCEPT !.audit.leaked = @ \cup Leftover(s, w),
                   !.gl[w] = NoCtx,
                   !.glfw.windows = @ \ {w},
                   !.glfw.current = IF @ = w THEN 0 ELSE @]
  ELSE [Undefined(s) EXCEPT !.audit.ctxDouble = TRUE]


\* glCreateShader
glCreateShader(s) ==
  IF ~Usable(s) THEN <<Undefined(s), 0>>
  ELSE LET c == Ctx(s)
           n == NewName(Allocated(c, "shader"))
           k == <<"shader", n>>
       IN <<SetCtx(s, [c EXCEPT !.obj = (k :> "object") @@ c.obj,
                                !.freed = c.freed \ {k}]), n>>

\* glCreateProgram, glAttachShader x2, glLinkProgram
glCreateProgram(s, field, vs, fs) ==
  IF ~Usable(s) THEN Undefined(s)
  ELSE LET c == Ctx(s)
           n == NewName(Allocated(c, "prog"))
           k == <<"prog", n>>
       IN [SetCtx(s, [c EXCEPT !.obj = (k :> [shaders |-> {vs, fs}]) @@ c.obj,
                               !.freed = c.freed \ {k}]) EXCEPT !.r[field] = n]

\* glDeleteShader: a shader attached to a program is only flagged for deletion
glDeleteShader(s, name) ==
  IF ~Usable(s) THEN Undefined(s)
  ELSE LET c == Ctx(s)
           k == <<"shader", name>>
           attached == \E p \in DOMAIN c.obj : p[1] = "prog" /\ name \in c.obj[p].shaders
       IN IF k \notin DOMAIN c.obj THEN s
          ELSE IF attached THEN SetCtx(s, [c EXCEPT !.obj[k] = "flagged"])
          ELSE SetCtx(s, [c EXCEPT !.obj = Restrict(c.obj, DOMAIN c.obj \ {k}),
                                   !.freed = c.freed \cup {k}])

\* glDeleteProgram: detaches its shaders; the flagged ones are deleted with it
glDeleteProgram(s, name) ==
  IF ~Usable(s) THEN Undefined(s)
  ELSE LET c == Ctx(s)
           k == <<"prog", name>>
       IN IF k \in DOMAIN c.obj
            THEN LET gone == {k} \cup {<<"shader", n>> : n \in
                                {m \in c.obj[k].shaders :
                                   /\ <<"shader", m>> \in DOMAIN c.obj
                                   /\ c.obj[<<"shader", m>>] = "flagged"}}
                 IN SetCtx(s, [c EXCEPT !.obj = Restrict(c.obj, DOMAIN c.obj \ gone),
                                        !.freed = c.freed \cup gone])
          ELSE IF k \in c.freed
            THEN [s EXCEPT !.audit.doubleRel = TRUE]
          ELSE s

\* glBindFramebuffer(GL_FRAMEBUFFER, name): a name that is no framebuffer object
\* leaves the binding as it was (the handlers always leave 0 bound)
glBindFramebuffer(s, name) ==
  IF ~Usable(s) THEN Undefined(s)
  ELSE IF name = 0 \/ <<"fbo", name>> \in DOMAIN Ctx(s).obj THEN [s EXCEPT !.fb = name]
  ELSE s

\* glClear / glDrawElements: write to the color attachment of the bound
\* framebuffer, or to the window's back buffer when framebuffer 0 is bound
WriteTarget(s, image) ==
  IF ~Usable(s) THEN Undefined(s)
  ELSE LET c == Ctx(s)
       IN IF s.fb = 0 THEN SetCtx(s, [c EXCEPT !.backbuffer = image])
          ELSE LET t == <<"tex", c.obj[<<"fbo", s.fb>>].color>>
               IN IF t \in DOMAIN c.obj
                    THEN SetCtx(s, [c EXCEPT !.obj[t].image = image])
                  ELSE s

TargetImage(s) ==
  IF ~Usable(s) THEN <<>>
  ELSE LET c == Ctx(s)
       IN IF s.fb = 0 THEN c.backbuffer
          ELSE LET t == <<"tex", c.obj[<<"fbo", s.fb>>].color>>
               IN IF t \in DOMAIN c.obj THEN c.obj[t].image ELSE <<>>

glClear(s) == WriteTarget(s, <<"clear">>)

\* glBindVertexArray(vao) + glDrawElements(GL_TRIANGLES, count, ...): the call is
\* recorded with the color source (vertexColor, or the edgeColor uniform) and the
\* polygon mode in effect
glDrawElements(s, pipeline, color, count) ==
  LET mode == IF Usable(s) THEN Ctx(s).polygonMode ELSE "none"
      d == [pipeline |-> pipeline, color |-> color, mode |-> mode, count |-> count]
  IN WriteTarget(s, Append(TargetImage(s), d))


\* --------------------------------------------------------- class FoamRenderer
\* a handle no create has returned yet
NoObject ==
  [st |-> "none", ok |-> FALSE, window |-> 0, width |-> 0, height |-> 0,
   surface_shader |-> 0, edge_shader |-> 0,
   surface_vao |-> 0, surface_vbo |-> 0, surface_ebo |-> 0, surface_color_vbo |-> 0,
   edge_vao |-> 0, edge_vbo |-> 0, edge_ebo |-> 0,
   fbo |-> 0, texture |-> 0, rbo |-> 0,
   vertices |-> <<>>, indices |-> <<>>, vertex_colors |-> <<>>, cell_colors |-> <<>>,
   vertex_count |-> 0, index_count |-> 0, cell_count |-> 0,
   rotation_x |-> 0, rotation_y |-> 0, zoom |-> 0, mesh_center |-> <<0, 0, 0>>,
   representation |-> 0, data_mode |-> 0,
   acq |-> <<>>, rel |-> <<>>]

\* the members as operator new and the default member initialisers leave them:
\* window and the twelve GL names have no initialiser and hold what the memory
\* held (junk: one word pattern for all of them)
Members(junk) ==
  [NoObject EXCEPT
     !.st = "live",
     !.window = junk,
     !.surface_shader = junk, !.edge_shader = junk,
     !.surface_vao = junk, !.surface_vbo = junk,
     !.surface_ebo = junk, !.surface_color_vbo = junk,
     !.edge_vao = junk, !.edge_vbo = junk, !.edge_ebo = junk,
     !.fbo = junk, !.texture = junk, !.rbo = junk,
     !.rotation_x = 3, !.rotation_y = 3, !.zoom = 5000,
     !.mesh_center = <<0, 0, 0>>,
     !.representation = REPRESENTATION_SURFACE,
     !.data_mode = DATA_MODE_POINT]

Acquire(s, group) == [s EXCEPT !.r.acq = Append(@, group)]
Release(s, group) == [s EXCEPT !.r.rel = Append(@, group)]

\* the old render target is not deleted
create_framebuffer_keep_old(s, w, h) ==
  LET s2 == glGen(s, "fbo", "fbo")
      s3 == glGen(s2, "tex", "texture")
      s4 == glStore(s3, "tex", s3.r.texture, [size |-> <<w, h>>, image |-> <<>>])
      s5 == glGen(s4, "rbo", "rbo")
      s6 == glStore(s5, "rbo", s5.r.rbo, [size |-> <<w, h>>])
  IN glStore(s6, "fbo", s6.r.fbo, [color |-> s6.r.texture, depth |-> s6.r.rbo])

create_framebuffer(s, w, h) ==
  LET s1 == IF s.r.fbo # 0
              THEN glDelete(glDelete(glDelete(s, "fbo", s.r.fbo),
                                     "tex", s.r.texture), "rbo", s.r.rbo)
            ELSE s
      s2 == glGen(s1, "fbo", "fbo")
      s3 == glGen(s2, "tex", "texture")
      s4 == glStore(s3, "tex", s3.r.texture, [size |-> <<w, h>>, image |-> <<>>])
      s5 == glGen(s4, "rbo", "rbo")
      s6 == glStore(s5, "rbo", s5.r.rbo, [size |-> <<w, h>>])
  IN glStore(s6, "fbo", s6.r.fbo, [color |-> s6.r.texture, depth |-> s6.r.rbo])

create_shader_program(s, field) ==
  LET v == glCreateShader(s)
      f == glCreateShader(v[1])
      p == glCreateProgram(f[1], field, v[2], f[2])
  IN glDeleteShader(glDeleteShader(p, v[2]), f[2])

\* FoamRenderer(w, h); env is what the platform does: "ok", or the call that fails
Constructor(s, id, w, h, junk, env) ==
  LET s0 == [s EXCEPT !.r = [Members(junk) EXCEPT !.width = w, !.height = h]]
  IN IF env = "glfwInit" THEN s0
     ELSE LET s1 == glfwInit(s0)
          IN IF env = "window" THEN glfwTerminate([s1 EXCEPT !.r.window = 0])
             ELSE LET s2 == Acquire(glfwCreateWindow(s1, id, w, h), "context")
                      s3 == glfwMakeContextCurrent(s2, s2.r.window)
                  IN IF env = "glew" THEN s3
                     ELSE LET s4 == [s3 EXCEPT !.glew = TRUE]
                              s5 == Acquire(create_shader_program(
                                      create_shader_program(s4, "surface_shader"),
                                      "edge_shader"), "pipelines")
                              s6 == glGen(glGen(glGen(glGen(s5, "vao", "surface_vao"),
                                      "buf", "surface_vbo"), "buf", "surface_ebo"),
                                      "buf", "surface_color_vbo")
                              s7 == Acquire(glGen(glGen(glGen(s6, "vao", "edge_vao"),
                                      "buf", "edge_vbo"), "buf", "edge_ebo"), "geometry")
                              s8 == Acquire(create_framebuffer(s7, s7.r.width, s7.r.height),
                                            "target")
                          IN [s8 EXCEPT !.r.ok = TRUE]

\* ~FoamRenderer(): the GL objects
DestructorObjects(s) ==
  LET s1 == glDelete(glDelete(glDelete(glDelete(s, "vao", s.r.surface_vao),
              "buf", s.r.surface_vbo), "buf", s.r.surface_ebo),
              "buf", s.r.surface_color_vbo)
      s2 == Release(glDelete(glDelete(glDelete(s1, "vao", s.r.edge_vao),
              "buf", s.r.edge_vbo), "buf", s.r.edge_ebo), "geometry")
      s3 == Release(glDelete(glDelete(glDelete(s2, "fbo", s.r.fbo),
              "tex", s.r.texture), "rbo", s.r.rbo), "target")
  IN Release(glDeleteProgram(glDeleteProgram(s3, s.r.surface_shader),
               s.r.edge_shader), "pipelines")

\* ~FoamRenderer(): the window and the library
DestructorWindow(s) ==
  LET s1 == IF s.r.window # 0 THEN glfwDestroyWindow(s, s.r.window) ELSE s
  IN Release(glfwTerminate(s1), "context")

\* the window goes before the GL objects are deleted
DestructorWindowFirst(s) == DestructorObjects(DestructorWindow(s))

\* ~FoamRenderer()
Destructor(s) == DestructorWindow(DestructorObjects(s))

\* the edge index buffer is not uploaded
upload_mesh_no_edge_indices(s) ==
  LET s1 == glStore(s, "buf", s.r.surface_vbo, s.r.vertices)
      s2 == glStore(s1, "buf", s.r.surface_color_vbo, s.r.vertex_colors)
      s3 == glStore(s2, "buf", s.r.surface_ebo, s.r.indices)
  IN glStore(s3, "buf", s.r.edge_vbo, s.r.vertices)

upload_mesh_to_gpu(s) ==
  LET s1 == glStore(s, "buf", s.r.surface_vbo, s.r.vertices)
      s2 == glStore(s1, "buf", s.r.surface_color_vbo, s.r.vertex_colors)
      s3 == glStore(s2, "buf", s.r.surface_ebo, s.r.indices)
      s4 == glStore(s3, "buf", s.r.edge_vbo, s.r.vertices)
  IN glStore(s4, "buf", s.r.edge_ebo, s.r.indices)

\* std::vector::assign(p, p + n)
Assign(p, n) == SubSeq(p, 1, n)

update_mesh_data(s, a) ==
  LET r1 == [s.r EXCEPT !.vertex_count = a.vert_count,
                        !.index_count = a.ind_count,
                        !.cell_count = a.c_count,
                        !.vertices = Assign(a.verts, a.vert_count * 3),
                        !.indices = Assign(a.inds, a.ind_count)]
      r2 == IF a.colors # NULL
              THEN [r1 EXCEPT !.vertex_colors = Assign(a.colors, a.vert_count * 4)]
            ELSE [r1 EXCEPT !.vertex_colors =
                    [i \in 1..(a.vert_count * 4) |-> DefaultColor[((i - 1) % 4) + 1]]]
      r3 == IF a.c_colors # NULL
              THEN [r2 EXCEPT !.cell_colors = Assign(a.c_colors, a.c_count * 4)]
            ELSE r2
  IN upload_mesh_to_gpu([s EXCEPT !.r = r3])

\* render(): the surface pass
draw_surface(s) ==
  IF s.r.representation = REPRESENTATION_SURFACE
     \/ s.r.representation = REPRESENTATION_SURFACE_WITH_EDGES
    THEN glDrawElements(s, "surface", "vertexColor", s.r.index_count)
  ELSE s

\* fill mode is not restored after the edge pass
draw_edges_no_restore(s) ==
  IF s.r.representation = REPRESENTATION_WIREFRAME
     \/ s.r.representation = REPRESENTATION_SURFACE_WITH_EDGES
    THEN glDrawElements(glPolygonMode(s, "line"), "edge",
           IF s.r.representation = REPRESENTATION_WIREFRAME THEN "blue" ELSE "black30",
           s.r.index_count)
  ELSE s

\* render(): the edge pass
draw_edges(s) ==
  IF s.r.representation = REPRESENTATION_WIREFRAME
     \/ s.r.representation = REPRESENTATION_SURFACE_WITH_EDGES
    THEN glPolygonMode(
           glDrawElements(glPolygonMode(s, "line"), "edge",
             IF s.r.representation = REPRESENTATION_WIREFRAME THEN "blue" ELSE "black30",
             s.r.index_count), "fill")
  ELSE s

\* the framebuffer binding (0 by then) is returned in place of the texture
render_return_binding(s) ==
  LET s1 == glBindFramebuffer(s, 0)
  IN [s1 EXCEPT !.ret = s1.fb]

\* the mesh counts are reset once the frame is drawn
render_return_consumes(s) ==
  [glBindFramebuffer(s, 0) EXCEPT !.ret = s.r.texture,
                                  !.r.vertex_count = 0, !.r.index_count = 0]

\* render(): glBindFramebuffer(GL_FRAMEBUFFER, 0); return texture
render_return(s) == [glBindFramebuffer(s, 0) EXCEPT !.ret = s.r.texture]

render(s) ==
  LET s1 == glfwMakeContextCurrent(s, s.r.window)
      s2 == glBindFramebuffer(s1, s.r.fbo)
      s3 == glClear(glViewport(s2, s.r.width, s.r.height))
  IN IF s.r.vertex_count = 0 \/ s.r.index_count = 0
       THEN render_return(s3)
     ELSE render_return(draw_edges(draw_surface(s3)))

\* the height member keeps its old value
resize_width_only(s, w, h) ==
  create_framebuffer([s EXCEPT !.r.width = w], w, h)

resize(s, w, h) ==
  create_framebuffer([s EXCEPT !.r.width = w, !.r.height = h], w, h)


\* ------------------------------------------------------------------ C API
Pack(h) ==
  [r |-> rend[h], glfw |-> glfw, glew |-> glew, gl |-> gl, audit |-> audit,
   ub |-> FALSE, ret |-> 0, fb |-> 0]

MeshOf(r) ==
  [vertices |-> r.vertices, indices |-> r.indices,
   vertex_colors |-> r.vertex_colors, cell_colors |-> r.cell_colors,
   vertex_count |-> r.vertex_count, index_count |-> r.index_count,
   cell_count |-> r.cell_count]

NoHist == [last |-> -1, prev |-> -1, got |-> -1]

Rend0 == [h \in Handles |-> NoObject]
Glfw0 == [inited |-> FALSE, windows |-> {}, current |-> 0]
Gl0 == [w \in Handles |-> NoCtx]
Audit0 == [leaked |-> {}, doubleRel |-> FALSE, ctxDouble |-> FALSE]
Hist0 == [h \in Handles |-> NoHist]
Expect0 == [h \in Handles |-> MeshOf(NoObject)]

\* the handler returns with the state t, or the process dies in an undefined call
\* and nothing of its state is left
Commit(h, t, hs, ex) ==
  \E outcome \in (IF t.ub THEN {"returns", "dies"} ELSE {"returns"}) :
    IF outcome = "dies"
      THEN /\ crashed' = TRUE
           /\ rend' = Rend0 /\ glfw' = Glfw0 /\ glew' = FALSE /\ gl' = Gl0
           /\ audit' = Audit0 /\ hist' = Hist0 /\ expect' = Expect0
    ELSE /\ rend' = [rend EXCEPT ![h] = t.r]
         /\ glfw' = t.glfw
         /\ glew' = t.glew
         /\ gl' = t.gl
         /\ audit' = t.audit
         /\ hist' = [hist EXCEPT ![h] = hs]
         /\ expect' = [expect EXCEPT ![h] = ex]
         /\ UNCHANGED crashed

Envs == {"ok", "glfwInit", "window", "glew"}

foam_renderer_create(h, w, ht, junk, env) ==
  /\ ~crashed
  /\ rend[h].st = "none"
  /\ env = "glfwInit" => ~glfw.inited
  /\ Commit(h, Constructor(Pack(h), h, w, ht, junk, env), NoHist, MeshOf(NoObject))

\* delete: the object's memory is gone (the bookkeeping stays)
Deleted(r) ==
  [NoObject EXCEPT !.st = "dead", !.ok = r.ok, !.window = r.window,
                   !.acq = r.acq, !.rel = r.rel]

foam_renderer_destroy(h) ==
  /\ ~crashed
  /\ rend[h].st = "live"
  /\ LET t == Destructor(Pack(h))
     IN Commit(h, [t EXCEPT !.r = Deleted(t.r)], hist[h], expect[h])

\* the arrays of an update_mesh call have the lengths its counts state
MeshArgs ==
  {[vert_count |-> vc, ind_count |-> ic, c_count |-> cc[1],
    verts |-> Fill(1, 3 * vc), inds |-> Fill(0, ic),
    colors |-> IF withColors THEN Fill(2, 4 * vc) ELSE NULL,
    c_colors |-> cc[2]] :
   vc \in 0..MaxVerts, ic \in IndexCounts, cc \in CellArgs,
   withColors \in {FALSE, TRUE}}

foam_renderer_update_mesh(h, a) ==
  /\ ~crashed
  /\ rend[h].st = "live"
  /\ Commit(h, update_mesh_data(Pack(h), a), hist[h],
            MeshOf(update_mesh_data([Pack(h) EXCEPT !.r = NoObject], a).r))

ViewArgs ==
  {[rotation_x |-> 11, rotation_y |-> 12, zoom |-> 13,
    center_x |-> 14, center_y |-> 15, center_z |-> 16]}

foam_renderer_set_view(h, v) ==
  /\ ~crashed
  /\ rend[h].st = "live"
  /\ LET s == Pack(h)
         t == [s EXCEPT !.r.rotation_x = v.rotation_x,
                        !.r.rotation_y = v.rotation_y,
                        !.r.zoom = v.zoom,
                        !.r.mesh_center = <<v.center_x, v.center_y, v.center_z>>]
     IN Commit(h, t, hist[h], expect[h])

foam_renderer_set_mode(h, representation, data_mode) ==
  /\ ~crashed
  /\ rend[h].st = "live"
  /\ LET s == Pack(h)
         t == [s EXCEPT !.r.representation = representation,
                        !.r.data_mode = data_mode]
     IN Commit(h, t, hist[h], expect[h])

foam_renderer_render(h) ==
  /\ ~crashed
  /\ rend[h].st = "live"
  /\ LET t == render(Pack(h))
     IN Commit(h, t, [hist[h] EXCEPT !.last = t.ret, !.prev = hist[h].last], expect[h])

foam_renderer_resize(h, w, ht) ==
  /\ ~crashed
  /\ rend[h].st = "live"
  /\ Commit(h, resize(Pack(h), w, ht), NoHist, expect[h])

foam_renderer_get_texture(h) ==
  /\ ~crashed
  /\ rend[h].st = "live"
  /\ LET s == Pack(h)
         t == [s EXCEPT !.ret = s.r.texture]
     IN Commit(h, t, [hist[h] EXCEPT !.got = t.ret], expect[h])

\* ------------------------------------------------------------ specifications
Init ==
  /\ rend = Rend0
  /\ glfw = Glfw0
  /\ glew = FALSE
  /\ gl = Gl0
  /\ audit = Audit0
  /\ hist = Hist0
  /\ expect = Expect0
  /\ crashed = FALSE

\* one renderer in the process
Next ==
  \E h \in {1} :
    \/ \E sz \in Sizes, junk \in Indeterminate, env \in Envs :
         foam_renderer_create(h, sz[1], sz[2], junk, env)
    \/ foam_renderer_destroy(h)
    \/ \E a \in MeshArgs : foam_renderer_update_mesh(h, a)
    \/ \E v \in ViewArgs : foam_renderer_set_view(h, v)
    \/ \E m \in Modes : foam_renderer_set_mode(h, m[1], m[2])
    \/ foam_renderer_render(h)
    \/ \E sz \in Sizes : foam_renderer_resize(h, sz[1], sz[2])
    \/ foam_renderer_get_texture(h)

Spec == Init /\ [][Next]_vars


\* two renderers used in turn, each call with one input
TwoSize == <<1, 2>>
TwoMesh ==
  [vert_count |-> 1, ind_count |-> 3, c_count |-> 0, verts |-> Fill(1, 3),
   inds |-> Fill(0, 3), colors |-> NULL, c_colors |-> NULL]

NextTwo ==
  \E h \in Handles :
    \/ foam_renderer_create(h, TwoSize[1], TwoSize[2], 0, "ok")
    \/ foam_renderer_destroy(h)
    \/ foam_renderer_update_mesh(h, TwoMesh)
    \/ foam_renderer_render(h)
    \/ foam_renderer_resize(h, TwoSize[2], TwoSize[1])

SpecTwo == Init /\ [][NextTwo]_vars

\* ------------------------------------------------------------------ claims
Live(h) == rend[h].st = "live"
Functional(h) == Live(h) /\ rend[h].ok

ViewOf(r) == <<r.rotation_x, r.rotation_y, r.zoom, r.mesh_center>>
ModeOf(r) == <<r.representation, r.data_mode>>
PipelineNames(r) == <<r.surface_shader, r.edge_shader>>
GeometryNames(r) ==
  <<r.surface_vao, r.surface_vbo, r.surface_ebo, r.surface_color_vbo,
    r.edge_vao, r.edge_vbo, r.edge_ebo>>

\* the objects of a context that are no part of a render target
NonTarget(c) ==
  Restrict(c.obj, {k \in DOMAIN c.obj : k[1] \notin {"fbo", "tex", "rbo"}})

\* the image in the color texture of renderer h, in context c
ImageOf(c, r) == c.obj[<<"tex", r.texture>>].image

\* C1: after an update_mesh call the stored mesh (arrays and counts) is what the
\* arguments of that call alone determine: what a new object would hold after it
C1_SnapshotFromLastCall ==
  \A h \in Handles : Live(h) => MeshOf(rend[h]) = expect[h]

\* C2: a render call that returns leaves the stored mesh, the view and the mode
\* as they were, and in its context changes no object but the render target
C2_RenderReadsOnly ==
  [][\A h \in Handles :
       (foam_renderer_render(h) /\ ~crashed') =>
         /\ MeshOf(rend'[h]) = MeshOf(rend[h])
         /\ ViewOf(rend'[h]) = ViewOf(rend[h])
         /\ ModeOf(rend'[h]) = ModeOf(rend[h])
         /\ \A w \in Handles :
              /\ NonTarget(gl'[w]) = NonTarget(gl[w])
              /\ DOMAIN gl'[w].obj = DOMAIN gl[w].obj
              /\ gl'[w].backbuffer = gl[w].backbuffer]_vars

C2_Witness ==
  /\ Functional(1) /\ hist[1].last # -1
  /\ rend[1].vertex_count > 0 /\ rend[1].index_count > 0
  /\ rend[1].zoom = 13
  /\ Len(ImageOf(gl[1], rend[1])) = 3

\* C3: render returns the current color texture, which is what get_texture
\* returns, and two renders with no resize between them return the same id
C3_TextureStable ==
  \A h \in Handles :
    Live(h) =>
      /\ hist[h].last # -1 => hist[h].last = rend[h].texture
      /\ hist[h].got # -1 => hist[h].got = rend[h].texture
      /\ hist[h].prev # -1 => hist[h].prev = hist[h].last
      /\ (hist[h].last # -1 /\ hist[h].got # -1) => hist[h].last = hist[h].got

C3_Witness ==
  /\ Functional(1) /\ hist[1].prev # -1 /\ hist[1].got # -1
  /\ rend[1].vertex_count > 0 /\ rend[1].representation = REPRESENTATION_WIREFRAME

\* C4: resize sets the viewport size and rebuilds the render target at that size
\* and leaves pipelines, geometry buffers, mesh, view and mode alone; the
\* viewport size of a functional renderer is the size of its render target
C4_TargetSize(h) ==
  LET r == rend[h]
      c == gl[h]
  IN /\ <<"fbo", r.fbo>> \in DOMAIN c.obj
     /\ c.obj[<<"fbo", r.fbo>>] = [color |-> r.texture, depth |-> r.rbo]
     /\ <<"tex", r.texture>> \in DOMAIN c.obj
     /\ c.obj[<<"tex", r.texture>>].size = <<r.width, r.height>>
     /\ <<"rbo", r.rbo>> \in DOMAIN c.obj
     /\ c.obj[<<"rbo", r.rbo>>].size = <<r.width, r.height>>
     /\ Cardinality({k \in DOMAIN c.obj : k[1] \in {"fbo", "tex", "rbo"}}) = 3

C4_ResizeStep ==
  \A h \in Handles : \A sz \in Sizes :
    (foam_renderer_resize(h, sz[1], sz[2]) /\ ~crashed') =>
      /\ <<rend'[h].width, rend'[h].height>> = sz
      /\ PipelineNames(rend'[h]) = PipelineNames(rend[h])
      /\ GeometryNames(rend'[h]) = GeometryNames(rend[h])
      /\ MeshOf(rend'[h]) = MeshOf(rend[h])
      /\ ViewOf(rend'[h]) = ViewOf(rend[h])
      /\ ModeOf(rend'[h]) = ModeOf(rend[h])
      /\ \A w \in Handles : NonTarget(gl'[w]) = NonTarget(gl[w])

C4_RenderStep ==
  \A h \in Handles :
    (foam_renderer_render(h) /\ ~crashed' /\ rend[h].ok) =>
      gl'[h].viewport = gl'[h].obj[<<"tex", rend[h].texture>>].size

C4_ResizeTargetOnly ==
  /\ [](\A h \in Handles : Functional(h) => C4_TargetSize(h))
  /\ [][C4_ResizeStep /\ C4_RenderStep]_vars

C4_Witness ==
  /\ Functional(1)
  /\ <<rend[1].width, rend[1].height>> = <<2, 1>>
  /\ gl[1].viewport = <<1, 2>>
  /\ rend[1].vertex_count > 0

\* C5: a renderer whose initialisation failed has every GPU resource name zero
\* and no later call on it brings the process down
C5_FailedInitZeroNames ==
  /\ ~crashed
  /\ \A h \in Handles :
       (Live(h) /\ ~rend[h].ok) => \A f \in NameFields : rend[h][f] = 0

\* C6: once destroy has returned on a successfully created renderer, nothing it
\* created is allocated, nothing was left for the context teardown to reclaim,
\* no delete hit an object already deleted, and window and library are gone
C6_ReleasedOnce ==
  /\ ~audit.doubleRel
  /\ ~audit.ctxDouble
  /\ \A h \in Handles :
       (rend[h].st = "dead" /\ rend[h].ok) =>
         /\ audit.leaked = {}
         /\ DOMAIN gl[h].obj = {}
         /\ h \notin glfw.windows
         /\ ~glfw.inited

C6_Witness ==
  /\ rend[1].st = "dead" /\ rend[1].ok
  /\ hist[1].prev # -1
  /\ Len(rend[1].rel) = 4
  /\ ~glfw.inited /\ glfw.windows = {}

Pos(q, g) == CHOOSE i \in 1..Len(q) : q[i] = g
Has(q, g) == \E i \in 1..Len(q) : q[i] = g

\* C7: destroy releases the resource groups in reverse order of acquisition
C7_ReverseAcquisition ==
  \A h \in Handles :
    rend[h].st = "dead" =>
      \A i \in 1..Len(rend[h].acq) : \A j \in 1..Len(rend[h].acq) :
        i < j => Pos(rend[h].rel, rend[h].acq[j]) < Pos(rend[h].rel, rend[h].acq[i])

\* C7 as amended: the order is the reverse of acquisition for every pair of
\* groups but one: the geometry buffer sets, acquired before the render target,
\* are released before it as well
C7_ReverseButGeometry ==
  \A h \in Handles :
    rend[h].st = "dead" =>
      /\ \A i \in 1..Len(rend[h].acq) : \A j \in 1..Len(rend[h].acq) :
           (i < j /\ {rend[h].acq[i], rend[h].acq[j]} # {"geometry", "target"}) =>
             Pos(rend[h].rel, rend[h].acq[j]) < Pos(rend[h].rel, rend[h].acq[i])
      /\ (Has(rend[h].acq, "geometry") /\ Has(rend[h].acq, "target")) =>
           /\ Pos(rend[h].acq, "geometry") < Pos(rend[h].acq, "target")
           /\ Pos(rend[h].rel, "geometry") < Pos(rend[h].rel, "target")

C7_Witness ==
  /\ rend[1].st = "dead"
  /\ rend[1].acq = <<"context", "pipelines", "geometry", "target">>
  /\ Len(rend[1].rel) = 4

\* C8: the draws of a render call follow from the counts and the representation:
\* none for an empty mesh; else the filled surface draw exactly for surface and
\* surface_with_edges, the line-mode edge draw exactly for wireframe and
\* surface_with_edges, surface first; and fill mode is back when render returns
C8_Draws(r, image, mode) ==
  LET draws == Tail(image)
      at(p) == {i \in 1..Len(draws) : draws[i].pipeline = p}
      surface == r.representation \in
                   {REPRESENTATION_SURFACE, REPRESENTATION_SURFACE_WITH_EDGES}
      edges == r.representation \in
                 {REPRESENTATION_WIREFRAME, REPRESENTATION_SURFACE_WITH_EDGES}
  IN /\ Len(image) >= 1 /\ Head(image) = "clear"
     /\ mode = "fill"
     /\ (r.vertex_count = 0 \/ r.index_count = 0) => draws = <<>>
     /\ (r.vertex_count # 0 /\ r.index_count # 0) =>
          /\ Cardinality(at("surface")) = (IF surface THEN 1 ELSE 0)
          /\ Cardinality(at("edge")) = (IF edges THEN 1 ELSE 0)
          /\ Len(draws) = Cardinality(at("surface")) + Cardinality(at("edge"))
          /\ \A i \in at("surface") : draws[i].mode = "fill" /\ \A j \in at("edge") : i < j
          /\ \A j \in at("edge") : draws[j].mode = "line"

C8_DrawSequence ==
  [][\A h \in Handles :
       (foam_renderer_render(h) /\ ~crashed' /\ rend[h].ok) =>
         C8_Draws(rend[h], ImageOf(gl'[h], rend[h]), gl'[h].polygonMode)]_vars

C8_Witness ==
  /\ Functional(1)
  /\ rend[1].representation = REPRESENTATION_SURFACE_WITH_EDGES
  /\ Len(ImageOf(gl[1], rend[1])) = 3
  /\ ImageOf(gl[1], rend[1])[3].mode = "line"
  /\ gl[1].polygonMode = "fill"

\* C9: the surface and the edge buffer sets of a functional renderer hold the
\* positions and the indices of its stored mesh
C9_BuffersMirrorMesh ==
  \A h \in Handles :
    Functional(h) =>
      LET r == rend[h]
          data(n) == gl[h].obj[<<"buf", n>>]
      IN /\ {<<"buf", r.surface_vbo>>, <<"buf", r.surface_ebo>>,
             <<"buf", r.edge_vbo>>, <<"buf", r.edge_ebo>>} \subseteq DOMAIN gl[h].obj
         /\ Cardinality({r.surface_vbo, r.surface_ebo, r.edge_vbo, r.edge_ebo}) = 4
         /\ data(r.surface_vbo) = r.vertices
         /\ data(r.edge_vbo) = r.vertices
         /\ data(r.surface_ebo) = r.indices
         /\ data(r.edge_ebo) = r.indices

C9_Witness ==
  /\ Functional(1)
  /\ rend[1].vertices # <<>> /\ rend[1].indices # <<>>
  /\ gl[1].obj[<<"buf", rend[1].edge_ebo>>] = rend[1].indices
  /\ rend[1].vertex_colors = Fill(2, 4)
  /\ <<rend[1].width, rend[1].height>> # gl[1].viewport /\ gl[1].viewport # <<0, 0>>

\* C10: while a successfully created renderer is live its window, its context
\* and the GL objects it names exist, whatever is done to another renderer
C10_DestroyIsolated ==
  \A h \in Handles :
    Functional(h) =>
      /\ h \in glfw.windows
      /\ glfw.inited
      /\ <<"fbo", rend[h].fbo>> \in DOMAIN gl[h].obj
      /\ <<"buf", rend[h].surface_vbo>> \in DOMAIN gl[h].obj
      /\ <<"prog", rend[h].surface_shader>> \in DOMAIN gl[h].obj

====
